---------------------------- MODULE Spec2Model ----------------------------
(***************************************************************************)
(* A model of bin/align/get_smilogram_from_alignments.py: the end-gap      *)
(* normaliser, the per-column classifier of worker(), the single-writer    *)
(* ingestion loop of main() and the smilogram queries that follow it.      *)
(*                                                                         *)
(* A sequence is a TLA+ sequence of one-character strings.  Positions are  *)
(* the 0-based positions of the code; element p of a sequence s is         *)
(* s[p + 1].  A taxon is identified by its row number in the alignment     *)
(* (name_map is the identity, so taxon identifiers are distinct).          *)
(***************************************************************************)
EXTENDS Integers, Sequences, FiniteSets, TLC

\* ------------------------------------------------------------- bounds --
\* An enumerated alignment has at most MaxTaxa taxa of at most MaxLen
\* characters, and at most MaxCells cells (taxa * length).
MaxTaxa == 3
MaxLen == 3
MaxCells == 6
\* The number of alignment files of a run of main().
MaxFiles == 2
\* The largest --cores of a run of main().
MaxCores == 2

\* ---------------------------------------------------------- alphabet --
\* The characters the enumerated alignments are written in.
Sigma == {"A", "a", "C", "-", "N"}

\* str.lower() on one character.
Lower(c) ==
    CASE c = "A" -> "a"
      [] c = "C" -> "c"
      [] c = "G" -> "g"
      [] c = "T" -> "t"
      [] c = "N" -> "n"
      [] c = "R" -> "r"
      [] c = "Y" -> "y"
      [] c = "S" -> "s"
      [] c = "W" -> "w"
      [] c = "K" -> "k"
      [] c = "M" -> "m"
      [] c = "B" -> "b"
      [] c = "D" -> "d"
      [] c = "H" -> "h"
      [] c = "V" -> "v"
      [] OTHER -> c

\* The characters re.sub('N|n|\?', "", col) removes from a column.
StripSet == {"N", "n", "?"}

\* The list `base in ['N', 'n', '?']` of the classification loop.
MissingList == {"N", "n", "?"}

\* The list a tied base must be in to be a candidate major allele.
IUPAC == {"a", "c", "t", "g", "r", "y", "s", "w", "k", "m", "b", "d", "h", "v"}

\* The keys of a taxon's entry of `results` (None is written "None").
Kinds == {"insertion", "deletion", "substitution", "majallele", "None"}

Range(s) == {s[i] : i \in DOMAIN s}

Max(S) == CHOOSE x \in S : \A y \in S : y <= x

\* n copies of '?'.
Questions(n) == [i \in 1..n |-> "?"]

\* -------------------------------------------------- end-gap normaliser --
\* The number of iterations of a `for .., base in enumerate(s)` loop that
\* appends and continues while base == '-', before it breaks or runs out.
RECURSIVE GapRun(_, _)
GapRun(s, i) ==
    IF i > Len(s) THEN 0
    ELSE IF s[i] = "-" THEN 1 + GapRun(s, i + 1)
    ELSE 0

Reverse(s) == [i \in 1..Len(s) |-> s[Len(s) + 1 - i]]

\* seq[start:stop] for 0 <= start and 0 <= stop <= len(seq).
Slice(s, start, stop) == SubSeq(s, start + 1, stop)

replace_gaps_at_start_and_ends(seq) ==
    LET L     == Len(seq)
        begin == GapRun(seq, 1)
        end   == GapRun(Reverse(seq), 1)
        \* the loop variable after the loop: the index of the break, or the
        \* last index enumerated when the loop ran out without a break
        start == IF begin < L THEN begin ELSE L - 1
        stop  == IF end < L THEN L - end ELSE L - 1
    IN  Questions(begin) \o Slice(seq, start, stop) \o Questions(end)

\* replace_gaps: every row normalised, in order.
replace_gaps(aln) ==
    [t \in 1..Len(aln) |-> replace_gaps_at_start_and_ends(aln[t])]

\* MultipleSeqAlignment.append, which replace_gaps calls for each row, raises
\* ValueError for a record that is not as long as the records already there.
append_raises(rows) ==
    \E t \in 1..Len(rows) : Len(rows[t]) # Len(rows[1])

\* AlignIO.read raises ValueError for a file that holds no record.
read_raises(file) == Len(file) = 0

\* aln.get_alignment_length(): the length of the first record.
get_alignment_length(aln) == Len(aln[1])

\* ------------------------------------------------------------- worker --
\* `major` before its first assignment.
Unbound == "unbound"

\* The local variables of one call of worker(): where it is (pc), the
\* normalised alignment, the next column, and major, results, base_count.
NoLocals(p) ==
    [pc |-> p, aln |-> <<>>, idx |-> 0, major |-> Unbound,
     results |-> <<>>, base_count |-> <<>>]

\* Lines 169-190: read the file, make the empty results, normalise.
worker_begin(file) ==
    IF read_raises(file) THEN NoLocals("raised")
    ELSE IF append_raises(replace_gaps(file)) THEN NoLocals("raised")
    ELSE [pc |-> "loop", aln |-> replace_gaps(file), idx |-> 0,
          major |-> Unbound,
          results |-> [t \in 1..Len(file) |-> [k \in Kinds |-> <<>>]],
          base_count |-> <<>>]

\* col = aln[:, idx]
Column(aln, idx) == [t \in 1..Len(aln) |-> aln[t][idx + 1]]

\* Considered with the pattern 'N|n': the '?' is not stripped.
ConsideredKeepsQuestionMark(col) ==
    SelectSeq(col, LAMBDA b : b \notin {"N", "n"})

\* bases = re.sub('N|n|\?', "", col)
Considered(col) == SelectSeq(col, LAMBDA b : b \notin StripSet)

\* count = Counter(bases)
Counter(bases) ==
    [b \in Range(bases) |-> Cardinality({i \in DOMAIN bases : bases[i] = b})]

\* count_of_count = Counter(count.values())
CountOfCount(count) ==
    [n \in {count[b] : b \in DOMAIN count} |->
        Cardinality({b \in DOMAIN count : count[b] = n})]

\* MajorChoices with the gap left among the candidates of a tie.
MajorChoicesTieKeepsGap(bases) ==
    IF Cardinality(Range(bases)) = 1 THEN {Lower(bases[1])}
    ELSE LET count == [b \in Range(bases) |->
                         Cardinality({i \in DOMAIN bases : bases[i] = b})]
             top   == CHOOSE n \in {count[b] : b \in DOMAIN count} :
                         \A b \in DOMAIN count : count[b] <= n
         IN  IF Cardinality({b \in DOMAIN count : count[b] = top}) = 1
             THEN {b \in DOMAIN count : count[b] = top}
             ELSE {Lower(b) : b \in {x \in DOMAIN count :
                                 count[x] = top /\ Lower(x) \in IUPAC \cup {"-"}}}

\* Lines 200-222 for a non-empty `bases`: the values `major` can be given.
\* One value, except for a tie, where choice() draws from common_bases; the
\* empty set when common_bases is empty and choice() raises IndexError.
MajorChoices(bases) ==
    IF Cardinality(Range(bases)) = 1 THEN {Lower(bases[1])}
    ELSE LET count == Counter(bases)
             coc   == CountOfCount(count)
             top   == Max(DOMAIN coc)
         IN  IF coc[top] = 1
             THEN {b \in DOMAIN count : count[b] = top}
             ELSE {Lower(b) : b \in {x \in DOMAIN count :
                                       count[x] = top /\ Lower(x) \in IUPAC}}

\* ClassifyBase with the deletion branch testing major == '-'.
ClassifyBaseWrongDeletion(raw, major) ==
    LET base == Lower(raw)
    IN  IF base \in MissingList THEN "None"
        ELSE IF major = Unbound THEN "NameError"
        ELSE IF base = major THEN "majallele"
        ELSE IF major = "-" /\ base # "-" THEN "insertion"
        ELSE IF base = "-" /\ major = "-" THEN "deletion"
        ELSE IF base # "-" /\ major # "-" THEN "substitution"
        ELSE "nothing"

\* Lines 225-235: the key of results[taxon] that idx is appended to for one
\* entry of the column, "NameError" when `major` is read unbound, and
\* "nothing" when no branch of the chain is taken.
ClassifyBase(raw, major) ==
    LET base == Lower(raw)
    IN  IF base \in MissingList THEN "None"
        ELSE IF major = Unbound THEN "NameError"
        ELSE IF base = major THEN "majallele"
        ELSE IF major = "-" /\ base # "-" THEN "insertion"
        ELSE IF base = "-" /\ major # "-" THEN "deletion"
        ELSE IF base # "-" /\ major # "-" THEN "substitution"
        ELSE "nothing"

\* One iteration of the column loop with `m` the value of major after lines
\* 198-222.
ColumnStep(w, m) ==
    LET col  == Column(w.aln, w.idx)
        kind == [t \in DOMAIN col |-> ClassifyBase(col[t], m)]
    IN  IF \E t \in DOMAIN col : kind[t] = "NameError"
        THEN [w EXCEPT !.pc = "raised"]
        ELSE [w EXCEPT
                !.idx = w.idx + 1,
                !.major = m,
                !.base_count = Append(w.base_count, Len(Considered(col))),
                !.results = [t \in DOMAIN col |->
                    IF kind[t] \in Kinds
                    THEN [w.results[t] EXCEPT
                            ![kind[t]] = Append(w.results[t][kind[t]], w.idx)]
                    ELSE w.results[t]]]

\* The local states one iteration of the loop can end in.
ColumnSuccessors(w) ==
    LET bases == Considered(Column(w.aln, w.idx))
    IN  IF Len(bases) = 0 THEN {ColumnStep(w, w.major)}
        ELSE IF MajorChoices(bases) = {} THEN {[w EXCEPT !.pc = "raised"]}
        ELSE {ColumnStep(w, m) : m \in MajorChoices(bases)}

\* The loop of lines 191-235 run to its end, and the return of line 238.
RECURSIVE RunLoop(_)
RunLoop(w) ==
    IF w.pc # "loop" THEN {w}
    ELSE IF w.idx = get_alignment_length(w.aln)
         THEN {[w EXCEPT !.pc = "returned"]}
         ELSE UNION {RunLoop(v) : v \in ColumnSuccessors(w)}

\* A whole call of worker(): the local states it can end in.
worker(file) == RunLoop(worker_begin(file))

\* --------------------------------------------------------------- state --
VARIABLES
    files,              \* the work list: the alignment each file holds
    args,               \* the command line: cores, smilogram
    pc,                 \* where main() is
    dbfile,             \* the store on disk: "absent", "old" (an earlier
                        \* run's, with its loci table) or "new"
    answer,             \* the reply to the overwrite prompt, if asked
    wk,                 \* per file, the locals of its call of worker()
    results,            \* what map() returned to main()
    cur,                \* the ingestion loop: tuple, statement, position
    loci,               \* table loci
    by_taxon,           \* table by_taxon
    by_locus,           \* table by_locus
    by_locus_missing,   \* table by_locus_missing
    committed,          \* conn.commit() has run
    smilogram_csv,      \* the rows of <output>-smilogram.csv
    missing_csv         \* the rows of <output>-missing.csv

vars == <<files, args, pc, dbfile, answer, wk, results, cur, loci, by_taxon,
          by_locus, by_locus_missing, committed, smilogram_csv, missing_csv>>

Files == DOMAIN files

\* locus = os.path.splitext(os.path.basename(f))[0]; files are numbered
\* and the number stands for the base name.
LocusOf(f) == f

\* The locus of the store an earlier run left behind.
OldLocus == 0

NotAsked == "not asked"

\* ------------------------------------------------ create the database --
\* Line 129, `answer == "Y" or "YES"`: Python reads it as
\* (answer == "Y") or "YES", and a non-empty string is true.
Truthy(str) == str # ""

OverwriteTest(a) == (a = "Y") \/ Truthy("YES")

\* What the user may type at the prompt.
Answers == {"Y", "YES", "n", ""}

\* Lines 243-246: create_differences_database, then the work list.
CreateDatabase ==
    /\ pc = "start"
    /\ IF dbfile = "absent"
       THEN /\ dbfile' = "new"
            /\ answer' = answer
            /\ pc' = "map"
            /\ UNCHANGED <<loci, by_taxon, by_locus, by_locus_missing>>
       ELSE \E a \in Answers :
            /\ answer' = a
            /\ IF OverwriteTest(a)
               THEN /\ dbfile' = "new"
                    /\ loci' = {}
                    /\ by_taxon' = {}
                    /\ by_locus' = {}
                    /\ by_locus_missing' = {}
                    /\ pc' = "map"
               ELSE /\ pc' = "pdb"
                    /\ UNCHANGED <<dbfile, loci, by_taxon, by_locus,
                                   by_locus_missing>>
    /\ UNCHANGED <<files, args, wk, results, cur, committed, smilogram_csv,
                   missing_csv>>

\* ------------------------------------------------------ the worker pool --
Busy == {f \in Files : wk[f].pc \in {"called", "loop"}}

\* Lines 248-252.  Pool(cores).map hands the tasks out in order to at most
\* `cores` processes; the built-in map calls worker for one file after the
\* other and stops at the first exception.
Dispatch(f) ==
    /\ pc = "map"
    /\ wk[f].pc = "queued"
    /\ \A g \in Files : g < f => wk[g].pc # "queued"
    /\ IF args.cores > 1
       THEN Cardinality(Busy) < args.cores
       ELSE \A g \in Files : g < f => wk[g].pc = "returned"
    /\ wk' = [wk EXCEPT ![f] = NoLocals("called")]
    /\ UNCHANGED <<files, args, pc, dbfile, answer, results, cur, loci,
                   by_taxon, by_locus, by_locus_missing, committed,
                   smilogram_csv, missing_csv>>

\* A whole call of worker() in a process of the pool (or in main()).
WorkerCall(f) ==
    /\ pc = "map"
    /\ wk[f].pc = "called"
    /\ \E w \in worker(files[f]) : wk' = [wk EXCEPT ![f] = w]
    /\ UNCHANGED <<files, args, pc, dbfile, answer, results, cur, loci,
                   by_taxon, by_locus, by_locus_missing, committed,
                   smilogram_csv, missing_csv>>

\* The same call, a step at a time: lines 169-190,
WorkerBegin(f) ==
    /\ pc = "map"
    /\ wk[f].pc = "called"
    /\ wk' = [wk EXCEPT ![f] = worker_begin(files[f])]
    /\ UNCHANGED <<files, args, pc, dbfile, answer, results, cur, loci,
                   by_taxon, by_locus, by_locus_missing, committed,
                   smilogram_csv, missing_csv>>

\* one iteration of the loop of lines 191-235,
WorkerColumn(f) ==
    /\ pc = "map"
    /\ wk[f].pc = "loop"
    /\ wk[f].idx < get_alignment_length(wk[f].aln)
    /\ \E w \in ColumnSuccessors(wk[f]) : wk' = [wk EXCEPT ![f] = w]
    /\ UNCHANGED <<files, args, pc, dbfile, answer, results, cur, loci,
                   by_taxon, by_locus, by_locus_missing, committed,
                   smilogram_csv, missing_csv>>

\* and the return of line 238.
WorkerReturn(f) ==
    /\ pc = "map"
    /\ wk[f].pc = "loop"
    /\ wk[f].idx = get_alignment_length(wk[f].aln)
    /\ wk' = [wk EXCEPT ![f].pc = "returned"]
    /\ UNCHANGED <<files, args, pc, dbfile, answer, results, cur, loci,
                   by_taxon, by_locus, by_locus_missing, committed,
                   smilogram_csv, missing_csv>>

\* The tuple of line 238.
ResultTuple(f, w) ==
    [locus |-> LocusOf(f), result |-> w.results,
     length |-> get_alignment_length(w.aln), bases |-> w.base_count]

\* map() returns the list of the results, in the order of the work list.
MapReturns ==
    /\ pc = "map"
    /\ \A f \in Files : wk[f].pc = "returned"
    /\ results' = [f \in Files |-> ResultTuple(f, wk[f])]
    /\ cur' = [i |-> 1, stmt |-> "loci", pos |-> 0]
    /\ pc' = "insert"
    /\ UNCHANGED <<files, args, dbfile, answer, wk, loci, by_taxon, by_locus,
                   by_locus_missing, committed, smilogram_csv, missing_csv>>

\* map() re-raises a worker's exception in main(), which does not catch it.
MapRaises ==
    /\ pc = "map"
    /\ \E f \in Files : wk[f].pc = "raised"
    /\ pc' = "raised"
    /\ UNCHANGED <<files, args, dbfile, answer, wk, results, cur, loci,
                   by_taxon, by_locus, by_locus_missing, committed,
                   smilogram_csv, missing_csv>>

\* ------------------------------------------------------------ ingestion --
\* How many times x is in the list s.
Occurrences(s, x) == Cardinality({i \in DOMAIN s : s[i] = x})

\* Lines 285-298: Counter over the taxa's lists of one kind, at pos.
RECURSIVE KindCount(_, _, _, _)
KindCount(result, kind, pos, t) ==
    IF t = 0 THEN 0
    ELSE Occurrences(result[t][kind], pos) + KindCount(result, kind, pos, t - 1)

\* center = length / 2 (integer division)
Center(length) == length \div 2

\* The distance stored with position pos of a locus of that length.
PositionFromCenter(pos, length) == pos - Center(length)

\* Lines 261-279: the by_taxon rows of one result tuple.
ByTaxonRows(r) ==
    {[taxon |-> t, locus |-> r.locus, position |-> r.result[t][k][j],
      position_from_center |-> PositionFromCenter(r.result[t][k][j], r.length),
      type |-> k] :
        <<t, k, j>> \in {x \in (DOMAIN r.result) \X Kinds \X (1..r.length) :
                            x[3] \in DOMAIN r.result[x[1]][x[2]]}}

\* Lines 302-325: the by_locus row of position pos.
ByLocusRow(r, pos) ==
    LET n == Len(r.result)
    IN  [locus |-> r.locus,
         majallele |-> KindCount(r.result, "majallele", pos, n),
         substitutions |-> KindCount(r.result, "substitution", pos, n),
         deletions |-> KindCount(r.result, "deletion", pos, n),
         insertions |-> KindCount(r.result, "insertion", pos, n),
         missing |-> KindCount(r.result, "None", pos, n),
         bases |-> r.bases[pos + 1],
         position |-> pos,
         position_from_center |-> PositionFromCenter(pos, r.length),
         type |-> "substitutions"]

\* Lines 326-341: the by_locus_missing row of position pos.
ByLocusMissingRow(r, pos) ==
    [locus |-> r.locus,
     present |-> r.bases[pos + 1],
     absent |-> Len(r.result) - r.bases[pos + 1],
     position |-> pos,
     position_from_center |-> PositionFromCenter(pos, r.length),
     type |-> "missing"]

StoredLoci == {row.locus : row \in loci}

\* Line 259: INSERT INTO loci.  locus is the primary key.
InsertLocus ==
    /\ pc = "insert"
    /\ cur.i <= Len(results)
    /\ cur.stmt = "loci"
    /\ LET r == results[cur.i]
       IN  IF r.locus \in StoredLoci
           THEN /\ pc' = "raised"
                /\ UNCHANGED <<loci, cur>>
           ELSE /\ loci' = loci \cup {[locus |-> r.locus, length |-> r.length]}
                /\ cur' = [cur EXCEPT !.stmt = "by_taxon"]
                /\ pc' = pc
    /\ UNCHANGED <<files, args, dbfile, answer, wk, results, by_taxon,
                   by_locus, by_locus_missing, committed, smilogram_csv,
                   missing_csv>>

\* Lines 261-279: INSERT INTO by_taxon, for every taxon, kind and position.
\* locus is a foreign key into loci.
InsertByTaxon ==
    /\ pc = "insert"
    /\ cur.i <= Len(results)
    /\ cur.stmt = "by_taxon"
    /\ LET r == results[cur.i]
       IN  IF ByTaxonRows(r) # {} /\ r.locus \notin StoredLoci
           THEN /\ pc' = "raised"
                /\ UNCHANGED <<by_taxon, cur>>
           ELSE /\ by_taxon' = by_taxon \cup ByTaxonRows(r)
                /\ cur' = [cur EXCEPT !.stmt = "by_locus", !.pos = 0]
                /\ pc' = pc
    /\ UNCHANGED <<files, args, dbfile, answer, wk, results, loci, by_locus,
                   by_locus_missing, committed, smilogram_csv, missing_csv>>

\* Lines 301-341, one iteration: the by_locus and by_locus_missing rows of
\* the next position of sorted(bases.keys()).
InsertByLocus ==
    /\ pc = "insert"
    /\ cur.i <= Len(results)
    /\ cur.stmt = "by_locus"
    /\ cur.pos < Len(results[cur.i].bases)
    /\ LET r == results[cur.i]
       IN  IF r.locus \notin StoredLoci
           THEN /\ pc' = "raised"
                /\ UNCHANGED <<by_locus, by_locus_missing, cur>>
           ELSE /\ by_locus' = by_locus \cup {ByLocusRow(r, cur.pos)}
                /\ by_locus_missing' =
                      by_locus_missing \cup {ByLocusMissingRow(r, cur.pos)}
                /\ cur' = [cur EXCEPT !.pos = cur.pos + 1]
                /\ pc' = pc
    /\ UNCHANGED <<files, args, dbfile, answer, wk, results, loci, by_taxon,
                   committed, smilogram_csv, missing_csv>>

\* The end of one iteration of the loop of line 255: on to the next tuple.
NextLocus ==
    /\ pc = "insert"
    /\ cur.i <= Len(results)
    /\ cur.stmt = "by_locus"
    /\ cur.pos = Len(results[cur.i].bases)
    /\ cur' = [i |-> cur.i + 1, stmt |-> "loci", pos |-> 0]
    /\ UNCHANGED <<files, args, pc, dbfile, answer, wk, results, loci,
                   by_taxon, by_locus, by_locus_missing, committed,
                   smilogram_csv, missing_csv>>

\* Commit one tuple early: the loop left before its last iteration.
CommitBeforeLastLocus ==
    /\ pc = "insert"
    /\ cur.i >= Len(results)
    /\ cur.stmt = "loci"
    /\ committed' = TRUE
    /\ pc' = IF args.smilogram THEN "smilogram" ELSE "close"
    /\ UNCHANGED <<files, args, dbfile, answer, wk, results, cur, loci,
                   by_taxon, by_locus, by_locus_missing, smilogram_csv,
                   missing_csv>>

\* Line 342: conn.commit(), after the loop.
Commit ==
    /\ pc = "insert"
    /\ cur.i > Len(results)
    /\ committed' = TRUE
    /\ pc' = IF args.smilogram THEN "smilogram" ELSE "close"
    /\ UNCHANGED <<files, args, dbfile, answer, wk, results, cur, loci,
                   by_taxon, by_locus, by_locus_missing, smilogram_csv,
                   missing_csv>>

\* ------------------------------------------------------------ smilogram --
\* sum(column) over a set of rows.
RECURSIVE SumOf(_, _)
SumOf(rows, column) ==
    IF rows = {} THEN 0
    ELSE LET row == CHOOSE x \in rows : TRUE
         IN  row[column] + SumOf(rows \ {row}, column)

\* GROUP BY position_from_center: the rows of one group.
Group(table, d) == {row \in table : row.position_from_center = d}

Distances(table) == {row.position_from_center : row \in table}

\* a / b on the real-typed sums is kept as the pair of its operands (SQLite
\* gives NULL for b = 0).
Quotient(a, b) == [num |-> a, den |-> b]

\* Lines 347-350: CREATE TEMP TABLE ssb.
Ssb(table) ==
    {[ss |-> SumOf(Group(table, d), "substitutions"),
      bp |-> SumOf(Group(table, d), "bases"),
      freq |-> Quotient(SumOf(Group(table, d), "substitutions"),
                        SumOf(Group(table, d), "bases")),
      distance_from_center |-> d] : d \in Distances(table)}

\* SubstitutionSeries without the WHERE clause.
SubstitutionSeriesUnfiltered(table) == Ssb(table)

\* Line 351: SELECT * FROM ssb WHERE ss != 0.
SubstitutionSeries(table) == {row \in Ssb(table) : row.ss # 0}

\* Lines 360-363: CREATE TEMP TABLE ssc.
Ssc(table) ==
    {[pres |-> SumOf(Group(table, d), "present"),
      absent |-> SumOf(Group(table, d), "absent"),
      freq |-> Quotient(SumOf(Group(table, d), "absent"),
                        SumOf(Group(table, d), "absent")
                          + SumOf(Group(table, d), "present")),
      distance_from_center |-> d] : d \in Distances(table)}

\* Line 364: SELECT * FROM ssc WHERE pres != 0.
MissingSeries(table) == {row \in Ssc(table) : row.pres # 0}

\* Lines 343-368: both series are computed and written.
Smilogram ==
    /\ pc = "smilogram"
    /\ smilogram_csv' = SubstitutionSeries(by_locus)
    /\ missing_csv' = MissingSeries(by_locus_missing)
    /\ pc' = "close"
    /\ UNCHANGED <<files, args, dbfile, answer, wk, results, cur, loci,
                   by_taxon, by_locus, by_locus_missing, committed>>

\* Lines 369-371.
Close ==
    /\ pc = "close"
    /\ pc' = "done"
    /\ UNCHANGED <<files, args, dbfile, answer, wk, results, cur, loci,
                   by_taxon, by_locus, by_locus_missing, committed,
                   smilogram_csv, missing_csv>>

\* --------------------------------------------------------------- inputs --
\* The example of the specification: ACGT / ACGA / AC-T.
EndToEnd ==
    << <<"A", "C", "G", "T">>, <<"A", "C", "G", "A">>, <<"A", "C", "-", "T">> >>

\* The same alignment in lower case.
EndToEndLower ==
    << <<"a", "c", "g", "t">>, <<"a", "c", "g", "a">>, <<"a", "c", "-", "t">> >>

\* A column whose major allele is the gap: A-A / a-a / aca.
GapMajor ==
    << <<"A", "-", "A">>, <<"a", "-", "a">>, <<"a", "c", "a">> >>

\* One taxon of length 10.
LengthTen == << <<"A", "C", "G", "T", "A", "C", "G", "T", "A", "C">> >>

\* One taxon that is all gaps, and the same beside a taxon with bases.
AllGaps == << <<"-", "-">> >>
GapsAndBases == << <<"-", "-">>, <<"A", "C">> >>

\* All three missing symbols, around a column of bases.
MissingMix ==
    << <<"n", "A", "?">>, <<"N", "a", "n">>, <<"?", "C", "N">> >>

\* Ties among ambiguity codes, and between a base and an internal gap.
AmbiguityTie ==
    << <<"R", "-", "A">>, <<"y", "C", "A">> >>

\* A file that holds no record.
NoRecords == << >>

\* Every alignment over Sigma within the bounds.
Shapes == {s \in (1..MaxTaxa) \X (1..MaxLen) : s[1] * s[2] <= MaxCells}

Alignments == UNION {[1..s[1] -> [1..s[2] -> Sigma]] : s \in Shapes}

\* The files a run of main() is given.
Corpus == {EndToEnd, EndToEndLower, GapMajor, LengthTen, AllGaps,
           GapsAndBases, NoRecords}

\* The inputs of one call of worker().
WorkerInputs == Alignments \cup Corpus \cup {MissingMix, AmbiguityTie}

\* ------------------------------------------------------- specifications --
\* A run of main(): the store may be there already, the work list holds
\* 1..MaxFiles files.
Init ==
    /\ files \in UNION {[1..n -> Corpus] : n \in 1..MaxFiles}
    /\ args \in [cores : 1..MaxCores, smilogram : BOOLEAN]
    /\ pc = "start"
    /\ dbfile \in {"absent", "old"}
    /\ answer = NotAsked
    /\ wk = [f \in DOMAIN files |-> NoLocals("queued")]
    /\ results = << >>
    /\ cur = [i |-> 1, stmt |-> "loci", pos |-> 0]
    /\ loci = IF dbfile = "old"
              THEN {[locus |-> OldLocus, length |-> 1]}
              ELSE {}
    /\ by_taxon = {}
    /\ by_locus = {}
    /\ by_locus_missing = {}
    /\ committed = FALSE
    /\ smilogram_csv = {}
    /\ missing_csv = {}

Next ==
    \/ CreateDatabase
    \/ \E f \in Files : Dispatch(f)
    \/ \E f \in Files : WorkerCall(f)
    \/ MapReturns
    \/ MapRaises
    \/ InsertLocus
    \/ InsertByTaxon
    \/ InsertByLocus
    \/ NextLocus
    \/ Commit
    \/ Smilogram
    \/ Close

Spec == Init /\ [][Next]_vars

\* One call of worker() on one file, a step at a time.
InitWorker ==
    /\ files \in {<<a>> : a \in WorkerInputs}
    /\ args = [cores |-> 1, smilogram |-> FALSE]
    /\ pc = "map"
    /\ dbfile = "new"
    /\ answer = NotAsked
    /\ wk = <<NoLocals("called")>>
    /\ results = << >>
    /\ cur = [i |-> 1, stmt |-> "loci", pos |-> 0]
    /\ loci = {}
    /\ by_taxon = {}
    /\ by_locus = {}
    /\ by_locus_missing = {}
    /\ committed = FALSE
    /\ smilogram_csv = {}
    /\ missing_csv = {}

NextWorker ==
    \/ \E f \in Files : WorkerBegin(f)
    \/ \E f \in Files : WorkerColumn(f)
    \/ \E f \in Files : WorkerReturn(f)

SpecWorker == InitWorker /\ [][NextWorker]_vars

\* --------------------------------------------------------------- claims --
\* What the formulas below read of a call of worker().
Returned(f) == wk[f].pc = "returned"

\* The columns of f's alignment that have been classified.
ClassifiedColumns(f) ==
    IF wk[f].pc \in {"loop", "returned"} THEN 0..(wk[f].idx - 1) ELSE {}

NormColumn(f, idx) == Column(wk[f].aln, idx)

\* idx is in the list of `kind` of taxon t.
In(f, t, kind, idx) == idx \in Range(wk[f].results[t][kind])

CountIn(col, b) == Cardinality({t \in DOMAIN col : col[t] = b})

IsMissing(b) == b \in {"?", "N", "n"}

\* The by_locus counts of a classified column, as main() derives them.
Summary(f, idx) ==
    ByLocusRow([locus |-> LocusOf(f), result |-> wk[f].results,
                length |-> get_alignment_length(wk[f].aln),
                bases |-> wk[f].base_count \o
                          [i \in 1..(get_alignment_length(wk[f].aln)
                                       - Len(wk[f].base_count)) |-> 0]],
               idx)

\* C1 (as claimed): in a column where one considered base b has the
\* strictly highest count, every taxon whose base is b is major-allele, a
\* substitution is a non-gap base other than b, and a gap is a deletion;
\* and ACGT / ACGA / AC-T gives substitutions=1, bases=3 at position 3 and
\* deletions=1, bases=3 at position 2.
C1_UniqueMaximum ==
    \A f \in Files : \A idx \in ClassifiedColumns(f) :
            LET col   == NormColumn(f, idx)
                bases == Considered(col)
            IN  /\ \A b \in Range(bases) \ {"-"} :
                    (\A c \in Range(bases) \ {b} :
                        CountIn(bases, c) < CountIn(bases, b))
                    => \A t \in DOMAIN col :
                        /\ col[t] = b => In(f, t, "majallele", idx)
                        /\ In(f, t, "substitution", idx)
                              => ~IsMissing(col[t]) /\ col[t] \notin {"-", b}
                        /\ col[t] = "-" => In(f, t, "deletion", idx)
                /\ (files[f] = EndToEnd /\ idx = 3) =>
                        /\ Summary(f, 3).substitutions = 1
                        /\ Summary(f, 3).bases = 3
                /\ (files[f] = EndToEnd /\ idx = 2) =>
                        /\ Summary(f, 2).deletions = 1
                        /\ Summary(f, 2).bases = 3

\* C2 (as claimed): when the store exists and the user is asked, it is
\* removed and recreated only on an explicit confirmation; after any other
\* answer the existing store is still there.
Confirmations == {"Y", "YES"}

C2_OverwriteOnlyIfConfirmed ==
    (answer # NotAsked /\ answer \notin Confirmations)
        => /\ dbfile = "old"
           /\ \E row \in loci : row.locus = OldLocus

\* C3 (as claimed): the normalised sequence is as long as the input, has '?'
\* at every position of the leading and of the trailing gap run, and the
\* input's character everywhere else; all gaps gives L times '?'.
InLeadingRun(seq, i) == \A j \in 1..i : seq[j] = "-"

InTrailingRun(seq, i) == \A j \in i..Len(seq) : seq[j] = "-"

C3_EndGapsOnly ==
    \A f \in Files :
        wk[f].pc \in {"loop", "returned"} =>
            \A t \in DOMAIN files[f] :
                LET seq == files[f][t]
                    new == wk[f].aln[t]
                IN  /\ Len(new) = Len(seq)
                    /\ \A i \in DOMAIN seq :
                          new[i] = IF InLeadingRun(seq, i) \/ InTrailingRun(seq, i)
                                   THEN "?"
                                   ELSE seq[i]

\* C4 (as claimed): in a column whose considered entries all carry the same
\* non-gap base, in whatever letter case, every non-missing entry is
\* major-allele and the column counts no substitution, insertion or
\* deletion.
OneBase(bases) ==
    /\ Len(bases) > 0
    /\ \A i \in DOMAIN bases : Lower(bases[i]) = Lower(bases[1])
    /\ bases[1] # "-"

C4_OneBaseIsMajor ==
    \A f \in Files : \A idx \in ClassifiedColumns(f) :
        LET col == NormColumn(f, idx)
        IN  OneBase(Considered(col)) =>
                /\ \A t \in DOMAIN col :
                      ~IsMissing(col[t]) => In(f, t, "majallele", idx)
                /\ Summary(f, idx).substitutions = 0
                /\ Summary(f, idx).insertions = 0
                /\ Summary(f, idx).deletions = 0

\* C5: every taxon's base at every classified position is in exactly one
\* of the five lists, once, so the five counts of the position's by_locus
\* row add up to the number of taxa; without gaps and missing symbols
\* majallele + substitutions is the number of taxa.
TimesListed(f, t, idx) ==
    LET lists == wk[f].results[t]
    IN  Occurrences(lists["majallele"], idx)
          + Occurrences(lists["substitution"], idx)
          + Occurrences(lists["deletion"], idx)
          + Occurrences(lists["insertion"], idx)
          + Occurrences(lists["None"], idx)

Plain(aln) ==
    \A t \in DOMAIN aln : \A i \in DOMAIN aln[t] :
        aln[t][i] \in {"A", "C", "G", "T", "a", "c", "g", "t"}

C5_ExactlyOneKind ==
    \A f \in Files : \A idx \in ClassifiedColumns(f) :
        LET n   == Len(files[f])
            row == Summary(f, idx)
        IN  /\ \A t \in 1..n : TimesListed(f, t, idx) = 1
            /\ row.majallele + row.substitutions + row.deletions
                 + row.insertions + row.missing = n
            /\ Plain(files[f]) => row.majallele + row.substitutions = n

\* A call has returned with a substitution, a deletion and a missing entry
\* in it.
C5_Witness ==
    \E f \in Files :
        /\ Returned(f)
        /\ Len(files[f]) >= 2
        /\ \E i, j, k \in ClassifiedColumns(f) :
              /\ Summary(f, i).substitutions > 0
              /\ Summary(f, j).deletions > 0
              /\ Summary(f, k).missing > 0

\* C6: in a classified column whose entries are all missing symbols, every
\* entry is listed as missing and as nothing else, and the column's
\* considered-base count is 0.
AllMissing(col) == \A t \in DOMAIN col : IsMissing(col[t])

C6_AllMissingColumn ==
    \A f \in Files : \A idx \in ClassifiedColumns(f) :
        LET col == NormColumn(f, idx)
        IN  AllMissing(col) =>
                /\ \A t \in DOMAIN col :
                      /\ In(f, t, "None", idx)
                      /\ \A k \in Kinds \ {"None"} : ~In(f, t, k, idx)
                /\ wk[f].base_count[idx + 1] = 0

\* A call has returned whose first column was all missing, before any major
\* allele, and which has a later all-missing column after a column that
\* set one.
C6_Witness ==
    \E f \in Files :
        /\ Returned(f)
        /\ AllMissing(NormColumn(f, 0))
        /\ \E i, j \in ClassifiedColumns(f) :
              /\ i < j
              /\ ~AllMissing(NormColumn(f, i))
              /\ AllMissing(NormColumn(f, j))

\* C7: once main() has written the substitution series, it has a row for
\* a distance d exactly if the substitutions of the by_locus rows at d add
\* up to something other than 0, and the row carries that sum, the sum of
\* their bases and the quotient of the two.
SmilogramWritten == args.smilogram /\ pc \in {"close", "done"}

RowsAt(d) == {row \in by_locus : row.position_from_center = d}

C7_SubstitutionSeries ==
    SmilogramWritten =>
        /\ \A d \in {row.position_from_center : row \in by_locus} :
              (SumOf(RowsAt(d), "substitutions") # 0)
                  <=> (\E out \in smilogram_csv : out.distance_from_center = d)
        /\ \A out \in smilogram_csv :
              LET d == out.distance_from_center
              IN  /\ RowsAt(d) # {}
                  /\ out.ss = SumOf(RowsAt(d), "substitutions")
                  /\ out.ss # 0
                  /\ out.bp = SumOf(RowsAt(d), "bases")
                  /\ out.freq = [num |-> out.ss, den |-> out.bp]
        /\ \A o1, o2 \in smilogram_csv :
              o1.distance_from_center = o2.distance_from_center => o1 = o2

\* The series is written, has a row, and leaves out a distance at which two
\* loci have rows without a substitution.
C7_Witness ==
    /\ SmilogramWritten
    /\ smilogram_csv # {}
    /\ \E d \in {row.position_from_center : row \in by_locus} :
          /\ Cardinality(RowsAt(d)) >= 2
          /\ \A out \in smilogram_csv : out.distance_from_center # d

\* C8: the workers never write to the store and main() writes only while no
\* worker runs; a by_taxon, by_locus or by_locus_missing row is inserted
\* only for a locus whose loci row is there; and when the smilogram queries
\* run, every locus of the work list has all its rows in the store and they
\* are committed.
Tables == <<loci, by_taxon, by_locus, by_locus_missing>>

LocusComplete(r) ==
    /\ [locus |-> r.locus, length |-> r.length] \in loci
    /\ ByTaxonRows(r) \subseteq by_taxon
    /\ \A pos \in 0..(Len(r.bases) - 1) :
          /\ ByLocusRow(r, pos) \in by_locus
          /\ ByLocusMissingRow(r, pos) \in by_locus_missing

ReferencesStoredLoci ==
    /\ \A row \in by_taxon : row.locus \in StoredLoci
    /\ \A row \in by_locus : row.locus \in StoredLoci
    /\ \A row \in by_locus_missing : row.locus \in StoredLoci

ReducerSeesWholeLoci ==
    pc = "smilogram" =>
        /\ committed
        /\ DOMAIN results = Files
        /\ \A f \in Files :
              /\ results[f] = ResultTuple(f, wk[f])
              /\ LocusComplete(results[f])
        /\ StoredLoci = {LocusOf(f) : f \in Files}

SingleWriter ==
    /\ wk' # wk => UNCHANGED <<Tables, committed>>
    /\ <<Tables, committed>>' # <<Tables, committed>> => Busy = {}
    /\ \A row \in by_taxon' \ by_taxon : row.locus \in StoredLoci
    /\ \A row \in by_locus' \ by_locus : row.locus \in StoredLoci
    /\ \A row \in by_locus_missing' \ by_locus_missing :
          row.locus \in StoredLoci

C8_SingleWriterWholeLoci ==
    /\ [](ReferencesStoredLoci /\ ReducerSeesWholeLoci)
    /\ [][SingleWriter]_vars

\* The queries are about to run on the rows of two loci that two pool
\* processes classified.
C8_Witness ==
    /\ pc = "smilogram"
    /\ args.cores > 1
    /\ Cardinality(StoredLoci) >= 2
    /\ by_taxon # {}

\* C9 (as claimed): when a call of worker() has failed and main() has ended,
\* it has ended normally, every other file was processed, the loci of the
\* calls that returned are in the store, committed, and the failed one's is
\* not.
Ended == pc \in {"done", "raised", "pdb"}

C9_FailureIsLocal ==
    ((\E f \in Files : wk[f].pc = "raised") /\ Ended) =>
        /\ pc = "done"
        /\ committed
        /\ \A g \in Files :
              /\ wk[g].pc \in {"returned", "raised"}
              /\ Returned(g) <=> LocusOf(g) \in StoredLoci

\* C10 (as claimed): the position_from_center stored for position p of a
\* locus whose alignment has length L is p - floor(L/2), in all three
\* tables.
InputLength(locus) == Len(files[locus][1])

Claimed(row) ==
    row.position < InputLength(row.locus) =>
        row.position_from_center
            = row.position - (InputLength(row.locus) \div 2)

C10_DistanceFromCenter ==
    /\ \A row \in by_taxon : Claimed(row)
    /\ \A row \in by_locus : Claimed(row)
    /\ \A row \in by_locus_missing : Claimed(row)

\* C11: in a column whose highest count is shared by several considered
\* bases, worker() does not fail for want of a candidate; the major allele
\* it selects is the lower-case form of one of the tied bases, is an IUPAC
\* single or ambiguity code and not the gap; and every entry of the column
\* is classified against that one value.
TopCount(bases) == Max({CountIn(bases, b) : b \in Range(bases)})

TiedBases(bases) ==
    {b \in Range(bases) : CountIn(bases, b) = TopCount(bases)}

IsTie(col) ==
    /\ Len(Considered(col)) > 0
    /\ Cardinality(TiedBases(Considered(col))) > 1

ValidCodes ==
    {"a", "c", "g", "t", "r", "y", "s", "w", "k", "m", "b", "d", "h", "v",
     "A", "C", "G", "T", "R", "Y", "S", "W", "K", "M", "B", "D", "H", "V"}

\* The kind an entry has against a major allele that is not the gap.
KindAgainst(raw, major) ==
    IF IsMissing(raw) THEN "None"
    ELSE IF Lower(raw) = major THEN "majallele"
    ELSE IF raw = "-" THEN "deletion"
    ELSE "substitution"

C11_TieBreak ==
    \A f \in Files :
        /\ (wk[f].pc = "raised" /\ Len(wk[f].aln) > 0)
              => ~IsTie(NormColumn(f, wk[f].idx))
        /\ (wk[f].pc \in {"loop", "returned"} /\ wk[f].idx > 0) =>
              LET idx == wk[f].idx - 1
                  col == NormColumn(f, idx)
              IN  IsTie(col) =>
                    /\ \E b \in TiedBases(Considered(col)) :
                          wk[f].major = Lower(b)
                    /\ wk[f].major \in ValidCodes
                    /\ wk[f].major # "-"
                    /\ \A t \in DOMAIN col :
                          /\ In(f, t, KindAgainst(col[t], wk[f].major), idx)
                          /\ TimesListed(f, t, idx) = 1

\* A column in which a base and an internal gap tie has just been
\* classified, after a column in which two other bases tied.
C11_Witness ==
    \E f \in Files :
        /\ wk[f].pc = "loop"
        /\ wk[f].idx >= 2
        /\ \E i \in 0..(wk[f].idx - 2) :
              /\ IsTie(NormColumn(f, i))
              /\ "-" \notin TiedBases(Considered(NormColumn(f, i)))
        /\ LET col == NormColumn(f, wk[f].idx - 1)
           IN  /\ IsTie(col)
               /\ "-" \in TiedBases(Considered(col))
               /\ wk[f].major \in IUPAC

=============================================================================
